---- MODULE Spec2Model ----
(***************************************************************************)
(* Model of the ionos-smtp-relay repository.                               *)
(*                                                                         *)
(*   - findOrCreateSentBox (server.js 318-536): the Sent-folder discovery  *)
(*     run, one action per awaited IMAP client operation.  Every client    *)
(*     operation either resolves or throws; what the server lists is an    *)
(*     input drawn from small universes.                                   *)
(*   - app.post('/send') (server.js 140-251) and appendToSent              *)
(*     (src/imap.js 18-119): one handler and at most one background        *)
(*     append task per request.                                            *)
(*   - the pure functions mapSmtpError (server.js 85-131), the delimiter   *)
(*     detection of server.js 390-401, the name matching of server.js      *)
(*     404-423 and buildRFC822Message (src/imap.js 127-185), each applied  *)
(*     once to an argument drawn from a bounded set.                       *)
(*                                                                         *)
(* Mailbox paths are sequences of tokens: words that contain neither '/'   *)
(* nor '.', separated by the one-character tokens "/" and ".".  Two paths  *)
(* are the same string exactly when they are the same token sequence.      *)
(***************************************************************************)
EXTENDS Integers, Sequences, FiniteSets, TLC

\* ------------------------------------------------------------------ bounds
\* longest full listing (client.list('*')) the server answers with
MaxAll == 2
\* longest special-use listing (client.list({specialUse: true}))
MaxSpecial == 2
\* number of /send requests in flight
NumReqs == 2
\* most words in an error message given to mapSmtpError
MaxWords == 2
\* longest listing given to the delimiter detection alone
MaxPaths == 3
\* longest cc or bcc array given to buildRFC822Message
MaxRecipients == 2
\* longest listing given to the name matching alone
MaxNames == 3

\* ----------------------------------------------------------------- helpers
Null == <<>>

\* the injective sequences over S of length at most n
ListsUpTo(S, n) ==
  UNION { { f \in [1..k -> S] : \A i, j \in 1..k : i # j => f[i] # f[j] } : k \in 0..n }

Min(S) == CHOOSE x \in S : \A y \in S : x <= y
Max(S) == CHOOSE x \in S : \A y \in S : x >= y

\* String.prototype.includes for a one-character needle
Includes(path, ch) == \E i \in DOMAIN path : path[i] = ch

\* String.prototype.toLowerCase on one word
LowerWord(w) ==
  CASE w = "INBOX" -> "inbox"
    [] w = "Sent" -> "sent"
    [] w = "SENT" -> "sent"
    [] w = "Sent Items" -> "sent items"
    [] w = "Sent Messages" -> "sent messages"
    [] w = "Enviados" -> "enviados"
    [] w = "ENVIADOS" -> "enviados"
    [] w = "Elementos enviados" -> "elementos enviados"
    [] w = "Gesendet" -> "gesendet"
    [] w = "Gesendete Elemente" -> "gesendete elemente"
    [] w = "Envoyes" -> "envoyes"
    [] w = "Elements envoyes" -> "elements envoyes"
    [] w = "Drafts" -> "drafts"
    [] w = "Work" -> "work"
    [] w = "Verzonden" -> "verzonden"
    [] OTHER -> w

\* String.prototype.toLowerCase on a path
ToLowerCase(path) == [i \in DOMAIN path |-> LowerWord(path[i])]

\* ------------------------------------------------- what the server can list
\* paths the full listing is drawn from
AllUniverse ==
  { <<"INBOX">>, <<"Drafts">>, <<"SENT">>, <<"Enviados">>,
    <<"INBOX", ".", "Sent">>, <<"INBOX", "/", "Sent Items">>,
    <<"INBOX", "/", "Work">> }

\* MailboxDescriptors the special-use listing is drawn from
SpecialUniverse ==
  { [path |-> <<"Verzonden">>, flags |-> {"\\Sent"}, specialUse |-> "none"],
    [path |-> <<"INBOX", ".", "Sent">>, flags |-> {}, specialUse |-> "\\Sent"],
    [path |-> <<"Drafts">>, flags |-> {"\\Drafts"}, specialUse |-> "\\Drafts"],
    [path |-> <<"Enviados">>, flags |-> {"\\Sent"}, specialUse |-> "\\Sent"] }

AllListings == ListsUpTo(AllUniverse, MaxAll)
SpecialListings == ListsUpTo(SpecialUniverse, MaxSpecial)

\* ---------------------------------------------------------------- variables
VARIABLES
  d_pc,        \* findOrCreateSentBox: the operation about to be issued
  d_creds,     \* user && pass are set (server.js 325-330)
  lock,        \* the `lock` local of findOrCreateSentBox is non-null
  special,     \* list({specialUse: true}) result, [] when it threw
  sent,        \* path of the `sent` descriptor, Null when undefined
  all,         \* paths of list('*'), in list order
  delimiter,
  created,
  d_try,       \* index into tryPaths of step 4
  sentPath,
  d_err,       \* the error on its way out of the function
  d_result,    \* "none", "returned" or "threw"
  d_log,       \* every client operation issued so far, with its outcome
  matched,     \* the candidate-name matching of step 3 was performed
  reported     \* paths the server reported in list responses of this run

dvars == << d_pc, d_creds, lock, special, sent, all, delimiter, created, d_try,
            sentPath, d_err, d_result, d_log, matched, reported >>

VARIABLES
  saveSentCopy, \* process.env.SAVE_SENT_COPY === 'true'
  imapCreds,    \* user && pass of appendToSent are set (imap.js 29-30, 42)
  mailbox,      \* process.env.IMAP_MAILBOX || 'Sent'
  h_pc,         \* per request: position of the /send handler
  smtp,         \* per request: "none", "ok" or "failed" (transporter.sendMail)
  info,         \* per request: what sendMail resolved with
  resp,         \* per request: the responses written, in order
  a_pc,         \* per request: position of its appendToSent call
  a_calls,      \* per request: number of appendToSent calls made
  a_raw,        \* per request: the `raw` argument of its call: "none" before
                \* the call, then "string" or "missing"
  client,       \* per request: the `client` local of appendToSent is set
  a_lock,       \* per request: path of the lock held by appendToSent
  a_fb,         \* per request: index into fallbackMailboxes
  a_n,          \* per request: how many client operations of each kind
                \* its append has issued
  a_fail,       \* per request: the first operation of its append that failed
  a_settled     \* per request: "none", "pending", "resolved", "rejected"

svars == << saveSentCopy, imapCreds, mailbox, h_pc, smtp, info, resp,
            a_pc, a_calls, a_raw, client, a_lock, a_fb, a_n, a_fail,
            a_settled >>

\* one application of a pure function of the program
VARIABLES
  p_fn,         \* the function applied: "none" when no application is modelled
  p_in,         \* its argument
  p_done,       \* the function has returned
  p_out         \* what it returned

pvars == << p_fn, p_in, p_done, p_out >>

vars == << dvars, svars, pvars >>

\* ------------------------------------------------- pure parts of discovery
\* server.js 373-376: the predicate of special.find
IsSentBox(mb) == ("\\Sent" \in mb.flags) \/ (mb.specialUse = "\\Sent")

\* server.js 373-376: special.find(...) returns the first match
FindSpecialSent(list) ==
  IF \E i \in DOMAIN list : IsSentBox(list[i])
  THEN list[Min({ i \in DOMAIN list : IsSentBox(list[i]) })].path
  ELSE Null

\* server.js 391-400: the delimiter loop, from index i on
RECURSIVE DetectFrom(_, _)
DetectFrom(list, i) ==
  IF i > Len(list) THEN "/"
  ELSE IF Includes(list[i], "/") THEN "/"
  ELSE IF Includes(list[i], ".") THEN "."
  ELSE DetectFrom(list, i + 1)

\* `let delimiter = '.'` as the default of line 391
DetectDelimiter_DefaultDot(list) ==
  IF \E i \in DOMAIN list : Includes(list[i], "/") \/ Includes(list[i], ".")
  THEN DetectFrom(list, 1)
  ELSE "."

\* server.js 390-400
DetectDelimiter(list) == DetectFrom(list, 1)

\* server.js 406-412
Candidates(delim) ==
  << <<"Sent">>, <<"Sent Items">>, <<"Sent Messages">>,
     <<"INBOX", delim, "Sent">>, <<"INBOX", delim, "Sent Items">>,
     <<"Enviados">>, <<"Elementos enviados">>,
     <<"Gesendet">>, <<"Gesendete Elemente">>,
     <<"Envoyes">>, <<"Elements envoyes">> >>

\* server.js 416: new Map(all.map(mb => [mb.path.toLowerCase(), mb]))
ByPathHas(list, key) == \E i \in DOMAIN list : ToLowerCase(list[i]) = key

\* Map keeps the last entry set for a key
ByPathGet(list, key) ==
  list[Max({ i \in DOMAIN list : ToLowerCase(list[i]) = key })]

\* the first listed folder that matches any candidate
MatchByName_ListOrder(list, delim) ==
  LET cands == Candidates(delim)
      hits == { i \in DOMAIN list :
                  \E k \in DOMAIN cands : ToLowerCase(list[i]) = ToLowerCase(cands[k]) }
  IN IF hits = {} THEN Null ELSE list[Min(hits)]

\* the candidate name taken instead of the folder the server listed
MatchByName_Candidate(list, delim) ==
  LET cands == Candidates(delim)
      hits == { k \in DOMAIN cands : ByPathHas(list, ToLowerCase(cands[k])) }
  IN IF hits = {} THEN Null ELSE cands[Min(hits)]

\* server.js 417-421: candidates.find(...) then byPath.get(hit.toLowerCase())
MatchByName(list, delim) ==
  LET cands == Candidates(delim)
      hits == { k \in DOMAIN cands : ByPathHas(list, ToLowerCase(cands[k])) }
  IN IF hits = {} THEN Null
     ELSE ByPathGet(list, ToLowerCase(cands[Min(hits)]))

\* the name matching run whether or not special-use resolved the folder
NeedsNameMatch_Always(s) == TRUE

\* server.js 404: if (!sent)
NeedsNameMatch(s) == s = Null

\* server.js 429-433
TryPaths(delim) ==
  << <<"INBOX", delim, "Sent">>, <<"INBOX", delim, "Sent Items">>, <<"Sent">> >>

\* the created path taken without looking it up in the re-listing
FindCreated_Blind(refreshed, p) == p

\* server.js 444: refreshed.find(mb => mb.path === p)
FindCreated(refreshed, p) ==
  IF \E i \in DOMAIN refreshed : refreshed[i] = p THEN p ELSE Null

Paths(list) == { list[i] : i \in DOMAIN list }

Logged(op, arg, res) == [op |-> op, arg |-> arg, res |-> res]

\* ------------------------------------------------------------ discovery run
DInit ==
  /\ d_pc = "start"
  /\ d_creds \in BOOLEAN
  /\ lock = FALSE
  /\ special = <<>>
  /\ sent = Null
  /\ all = <<>>
  /\ delimiter = "/"
  /\ created = FALSE
  /\ d_try = 0
  /\ sentPath = Null
  /\ d_err = "none"
  /\ d_result = "none"
  /\ d_log = <<>>
  /\ matched = FALSE
  /\ reported = {}

\* server.js 526-531: where the catch block starts, given the `lock` local
CatchEntry(held) == IF held THEN "catchRelease" ELSE "catchLogout"

\* server.js 328-330: the credentials guard, before any client exists
CheckCredentials ==
  /\ d_pc = "start"
  /\ IF d_creds
     THEN /\ d_pc' = "connect"
          /\ UNCHANGED << d_err, d_result >>
     ELSE /\ d_pc' = "done"
          /\ d_err' = "credentials"
          /\ d_result' = "threw"
  /\ UNCHANGED << d_creds, lock, special, sent, all, delimiter, created, d_try,
                  sentPath, d_log, matched, reported >>
  /\ UNCHANGED << svars, pvars >>

\* server.js 341: await client.connect(), outside the try block
Connect ==
  /\ d_pc = "connect"
  /\ \E ok \in BOOLEAN :
       /\ d_log' = Append(d_log, Logged("connect", Null, IF ok THEN "ok" ELSE "err"))
       /\ IF ok
          THEN /\ d_pc' = "inboxLock"
               /\ UNCHANGED << d_err, d_result >>
          ELSE /\ d_pc' = "done"
               /\ d_err' = "connect"
               /\ d_result' = "threw"
  /\ UNCHANGED << d_creds, lock, special, sent, all, delimiter, created, d_try,
                  sentPath, matched, reported >>
  /\ UNCHANGED << svars, pvars >>

\* server.js 350-355: getMailboxLock('INBOX'), its failure only logged
InboxLock ==
  /\ d_pc = "inboxLock"
  /\ \E ok \in BOOLEAN :
       /\ d_log' = Append(d_log, Logged("lock", <<"INBOX">>, IF ok THEN "ok" ELSE "err"))
       /\ lock' = ok
       /\ d_pc' = IF ok THEN "inboxRelease" ELSE "listSpecial"
  /\ UNCHANGED << d_creds, special, sent, all, delimiter, created, d_try,
                  sentPath, d_err, d_result, matched, reported >>
  /\ UNCHANGED << svars, pvars >>

\* server.js 356-359: await lock.release(); lock = null
InboxRelease ==
  /\ d_pc = "inboxRelease"
  /\ \E ok \in BOOLEAN :
       /\ d_log' = Append(d_log, Logged("release", <<"INBOX">>, IF ok THEN "ok" ELSE "err"))
       /\ IF ok
          THEN /\ lock' = FALSE
               /\ d_pc' = "listSpecial"
               /\ UNCHANGED d_err
          ELSE /\ UNCHANGED lock
               /\ d_pc' = CatchEntry(lock)
               /\ d_err' = "inboxRelease"
  /\ UNCHANGED << d_creds, special, sent, all, delimiter, created, d_try,
                  sentPath, d_result, matched, reported >>
  /\ UNCHANGED << svars, pvars >>

\* server.js 363-380: the special-use listing and special.find
ListSpecial ==
  /\ d_pc = "listSpecial"
  /\ \/ \E list \in SpecialListings :
          /\ special' = list
          /\ reported' = reported \cup { list[i].path : i \in DOMAIN list }
          /\ d_log' = Append(d_log, Logged("listSpecial", Null, "ok"))
     \/ /\ special' = <<>>
        /\ UNCHANGED reported
        /\ d_log' = Append(d_log, Logged("listSpecial", Null, "err"))
  /\ sent' = FindSpecialSent(special')
  /\ d_pc' = "listAll"
  /\ UNCHANGED << d_creds, lock, all, delimiter, created, d_try,
                  sentPath, d_err, d_result, matched >>
  /\ UNCHANGED << svars, pvars >>

\* server.js 384-458: list('*'), delimiter detection, name matching, and the
\* choice between step 4 and step 5
ListAll ==
  /\ d_pc = "listAll"
  /\ \/ \E list \in AllListings :
          LET delim == DetectDelimiter(list)
              doMatch == NeedsNameMatch(sent)
              s == IF doMatch THEN MatchByName(list, delim) ELSE sent
          IN /\ all' = list
             /\ reported' = reported \cup Paths(list)
             /\ d_log' = Append(d_log, Logged("listAll", Null, "ok"))
             /\ delimiter' = delim
             /\ matched' = doMatch
             /\ sent' = s
             /\ IF s = Null
                THEN /\ d_pc' = "create"
                     /\ d_try' = 1
                     /\ UNCHANGED sentPath
                ELSE /\ d_pc' = "probe"
                     /\ sentPath' = s
                     /\ UNCHANGED d_try
             /\ UNCHANGED d_err
     \/ /\ d_log' = Append(d_log, Logged("listAll", Null, "err"))
        /\ d_pc' = CatchEntry(lock)
        /\ d_err' = "listAll"
        /\ UNCHANGED << all, reported, delimiter, matched, sent, d_try, sentPath >>
  /\ UNCHANGED << d_creds, lock, special, created, d_result >>
  /\ UNCHANGED << svars, pvars >>

\* server.js 435-454: what follows a try path that did not produce `sent`
AfterFailedTry(i) ==
  IF i < Len(TryPaths(delimiter))
  THEN /\ d_pc' = "create"
       /\ d_try' = i + 1
       /\ UNCHANGED d_err
  ELSE /\ d_pc' = CatchEntry(lock)
       /\ d_err' = "createExhausted"
       /\ UNCHANGED d_try

\* server.js 436-439, 446-449: mailboxCreate(p, {specialUse: '\\Sent'})
CreateMailbox ==
  /\ d_pc = "create"
  /\ LET p == TryPaths(delimiter)[d_try]
     IN \E ok \in BOOLEAN :
          /\ d_log' = Append(d_log, Logged("create", p, IF ok THEN "ok" ELSE "err"))
          /\ IF ok
             THEN /\ created' = TRUE
                  /\ d_pc' = "relist"
                  /\ UNCHANGED << d_try, d_err >>
             ELSE /\ UNCHANGED created
                  /\ AfterFailedTry(d_try)
  /\ UNCHANGED << d_creds, lock, special, sent, all, delimiter,
                  sentPath, d_result, matched, reported >>
  /\ UNCHANGED << svars, pvars >>

\* server.js 443-445: the re-listing after a successful creation
Relist ==
  /\ d_pc = "relist"
  /\ LET p == TryPaths(delimiter)[d_try]
     IN \/ \E refreshed \in { all, Append(all, p) } :
             LET s == FindCreated(refreshed, p)
             IN /\ reported' = reported \cup Paths(refreshed)
                /\ d_log' = Append(d_log, Logged("relist", p, "ok"))
                /\ sent' = s
                /\ IF s # Null
                   THEN /\ d_pc' = "probe"
                        /\ sentPath' = s
                        /\ UNCHANGED << d_try, d_err >>
                   ELSE /\ AfterFailedTry(d_try)
                        /\ UNCHANGED sentPath
        \/ /\ d_log' = Append(d_log, Logged("relist", p, "err"))
           /\ AfterFailedTry(d_try)
           /\ UNCHANGED << reported, sent, sentPath >>
  /\ UNCHANGED << d_creds, lock, special, all, delimiter, created,
                  d_result, matched >>
  /\ UNCHANGED << svars, pvars >>

\* the unchanged locals of steps 5 and 6
Step5Frame ==
  UNCHANGED << d_creds, lock, special, sent, all, delimiter, created, d_try,
               sentPath, matched, reported, svars, pvars >>

\* the TRYCREATE test of line 500 left out: every failed append is retried
ProbeAppend_RetryAnyError ==
  /\ d_pc = "probe"
  /\ \E res \in {"ok", "trycreate", "err"} :
       /\ d_log' = Append(d_log, Logged("append", sentPath, res))
       /\ d_pc' = CASE res = "ok" -> "cleanLock"
                    [] OTHER -> "retryCreate"
  /\ UNCHANGED << d_err, d_result >>
  /\ Step5Frame

\* server.js 471-475, 495-515: the first probe append and the dispatch on its
\* error message (/TRYCREATE/i)
ProbeAppend ==
  /\ d_pc = "probe"
  /\ \E res \in {"ok", "trycreate", "err"} :
       /\ d_log' = Append(d_log, Logged("append", sentPath, res))
       /\ d_pc' = CASE res = "ok" -> "cleanLock"
                    [] res = "trycreate" -> "retryCreate"
                    [] OTHER -> "logoutAppendFailed"
  /\ UNCHANGED << d_err, d_result >>
  /\ Step5Frame

\* server.js 478-479, 491-493: getMailboxLock(sentPath) for the cleanup
CleanLock ==
  /\ d_pc = "cleanLock"
  /\ \E ok \in BOOLEAN :
       /\ d_log' = Append(d_log, Logged("lock", sentPath, IF ok THEN "ok" ELSE "err"))
       /\ d_pc' = IF ok THEN "search" ELSE "logout"
  /\ UNCHANGED << d_err, d_result >>
  /\ Step5Frame

\* server.js 482-483: search by subject; messages.length > 0 decides
Search ==
  /\ d_pc = "search"
  /\ \E res \in {"found", "empty", "err"} :
       /\ d_log' = Append(d_log, Logged("search", sentPath, res))
       /\ d_pc' = IF res = "found" THEN "flagsAdd" ELSE "cleanRelease"
  /\ UNCHANGED << d_err, d_result >>
  /\ Step5Frame

\* server.js 484
FlagsAdd ==
  /\ d_pc = "flagsAdd"
  /\ \E ok \in BOOLEAN :
       /\ d_log' = Append(d_log, Logged("flagsAdd", sentPath, IF ok THEN "ok" ELSE "err"))
       /\ d_pc' = IF ok THEN "expunge" ELSE "cleanRelease"
  /\ UNCHANGED << d_err, d_result >>
  /\ Step5Frame

\* server.js 485
Expunge ==
  /\ d_pc = "expunge"
  /\ \E ok \in BOOLEAN :
       /\ d_log' = Append(d_log, Logged("expunge", sentPath, IF ok THEN "ok" ELSE "err"))
       /\ d_pc' = "cleanRelease"
  /\ UNCHANGED << d_err, d_result >>
  /\ Step5Frame

\* server.js 488-493: finally { await cleanLock.release() }; whatever the
\* cleanup threw is caught and logged
CleanRelease ==
  /\ d_pc = "cleanRelease"
  /\ \E ok \in BOOLEAN :
       /\ d_log' = Append(d_log, Logged("release", sentPath, IF ok THEN "ok" ELSE "err"))
       /\ d_pc' = "logout"
  /\ UNCHANGED << d_err, d_result >>
  /\ Step5Frame

\* server.js 503: mailboxCreate(sentPath) after a TRYCREATE rejection
RetryCreate ==
  /\ d_pc = "retryCreate"
  /\ \E ok \in BOOLEAN :
       /\ d_log' = Append(d_log, Logged("retryCreate", sentPath, IF ok THEN "ok" ELSE "err"))
       /\ d_pc' = IF ok THEN "retryAppend" ELSE "logoutRetryFailed"
  /\ UNCHANGED << d_err, d_result >>
  /\ Step5Frame

\* server.js 504-507: the second probe append
RetryAppend ==
  /\ d_pc = "retryAppend"
  /\ \E ok \in BOOLEAN :
       /\ d_log' = Append(d_log, Logged("append", sentPath, IF ok THEN "ok" ELSE "err"))
       /\ d_pc' = IF ok THEN "logout" ELSE "logoutRetryFailed"
  /\ UNCHANGED << d_err, d_result >>
  /\ Step5Frame

\* server.js 509-510, 513-514: await client.logout(); throw new Error(...).
\* Both statements sit inside the outer try, so whichever of them throws,
\* control passes to the catch block of line 526.
LogoutThenThrow(wrapped) ==
  \E ok \in BOOLEAN :
    /\ d_log' = Append(d_log, Logged("logout", Null, IF ok THEN "ok" ELSE "err"))
    /\ d_err' = IF ok THEN wrapped ELSE "logout"
    /\ d_pc' = CatchEntry(lock)

\* server.js 508-511
LogoutRetryFailed ==
  /\ d_pc = "logoutRetryFailed"
  /\ LogoutThenThrow("appendAfterTrycreate")
  /\ UNCHANGED d_result
  /\ Step5Frame

\* server.js 512-515
LogoutAppendFailed ==
  /\ d_pc = "logoutAppendFailed"
  /\ LogoutThenThrow("append")
  /\ UNCHANGED d_result
  /\ Step5Frame

\* server.js 518-524: the logout of the success path, then the return
Logout ==
  /\ d_pc = "logout"
  /\ \E ok \in BOOLEAN :
       /\ d_log' = Append(d_log, Logged("logout", Null, IF ok THEN "ok" ELSE "err"))
       /\ IF ok
          THEN /\ d_pc' = "done"
               /\ d_result' = "returned"
               /\ UNCHANGED d_err
          ELSE /\ d_pc' = CatchEntry(lock)
               /\ d_err' = "logout"
               /\ UNCHANGED d_result
  /\ Step5Frame

\* server.js 528-530: if (lock) { try { await lock.release() } catch {} }
CatchRelease ==
  /\ d_pc = "catchRelease"
  /\ \E ok \in BOOLEAN :
       d_log' = Append(d_log, Logged("release", <<"INBOX">>, IF ok THEN "ok" ELSE "err"))
  /\ d_pc' = "catchLogout"
  /\ UNCHANGED << d_err, d_result >>
  /\ Step5Frame

\* server.js 531-534: try { await client.logout() } catch {}; throw error
CatchLogout ==
  /\ d_pc = "catchLogout"
  /\ \E ok \in BOOLEAN :
       d_log' = Append(d_log, Logged("logout", Null, IF ok THEN "ok" ELSE "err"))
  /\ d_pc' = "done"
  /\ d_result' = "threw"
  /\ UNCHANGED d_err
  /\ Step5Frame

Next ==
  \/ CheckCredentials
  \/ Connect
  \/ InboxLock
  \/ InboxRelease
  \/ ListSpecial
  \/ ListAll
  \/ CreateMailbox
  \/ Relist
  \/ ProbeAppend
  \/ CleanLock
  \/ Search
  \/ FlagsAdd
  \/ Expunge
  \/ CleanRelease
  \/ RetryCreate
  \/ RetryAppend
  \/ LogoutRetryFailed
  \/ LogoutAppendFailed
  \/ Logout
  \/ CatchRelease
  \/ CatchLogout

\* no discovery run: the locals at the values DInit gives them
DIdle == DInit /\ d_creds = TRUE /\ d_pc = "start"

\* ------------------------------------------------------- POST /send
Reqs == 1..NumReqs

\* what transporter.sendMail can resolve with
Infos ==
  { [messageId |-> "<m1@relay>", accepted |-> {"a@x"}, rejected |-> {}],
    [messageId |-> "<m2@relay>", accepted |-> {}, rejected |-> {"a@x"}] }

NoInfo == [messageId |-> "", accepted |-> {}, rejected |-> {}]

\* the words and phrases an error message is made of, as a server or
\* nodemailer writes them; "failed" stands for text that holds no marker
Words ==
  { "Authentication", "AUTH", "Invalid login", "535",
    "Connection", "connect", "timeout", "ENOTFOUND", "network", "DNS",
    "TLS", "SSL", "certificate",
    "recipient", "invalid", "550", "553", "failed" }

\* String.prototype.toLowerCase on a word of an error message
LowerText(w) ==
  CASE w = "Authentication" -> "authentication"
    [] w = "AUTH" -> "auth"
    [] w = "Invalid login" -> "invalid login"
    [] w = "Connection" -> "connection"
    [] w = "ENOTFOUND" -> "enotfound"
    [] w = "DNS" -> "dns"
    [] w = "TLS" -> "tls"
    [] w = "SSL" -> "ssl"
    [] OTHER -> w

\* String.prototype.includes on a lowercase word: the marker is the word or
\* a substring of it
WordIncludes(w, marker) ==
  \/ w = marker
  \/ w = "authentication" /\ marker = "auth"
  \/ w = "connection" /\ marker = "connect"
  \/ w = "invalid login" /\ marker = "invalid"

\* server.js 86: error.message.toLowerCase(), the message being a set of words
LowerMessage(message) == { LowerText(w) : w \in message }

\* message.includes(marker), no marker spanning two words
MessageIncludes(message, marker) == \E w \in message : WordIncludes(w, marker)

\* the error messages sendMail rejects with in the send model: one word, or
\* text without a marker
ErrorMessages == { {w} : w \in Words } \cup { {} }

\* the recipient test of lines 120-125 moved before the others
mapSmtpError_RecipientFirst(error) ==
  LET message == LowerMessage(error)
      includes(marker) == MessageIncludes(message, marker)
  IN IF includes("recipient") \/ includes("invalid")
        \/ includes("550") \/ includes("553")
     THEN [status |-> 422, message |-> "Direccion de email invalida o rechazada"]
     ELSE IF includes("authentication") \/ includes("auth")
        \/ includes("invalid login") \/ includes("535")
     THEN [status |-> 401, message |-> "Error de autenticacion SMTP"]
     ELSE IF includes("connection") \/ includes("connect")
        \/ includes("timeout") \/ includes("enotfound")
        \/ includes("network") \/ includes("dns")
     THEN [status |-> 502, message |-> "Error de conexion con el servidor SMTP"]
     ELSE IF includes("tls") \/ includes("ssl") \/ includes("certificate")
     THEN [status |-> 502, message |-> "Error de seguridad TLS/SSL"]
     ELSE [status |-> 500, message |-> "Error interno del servidor SMTP"]

\* server.js 85-131
mapSmtpError(error) ==
  LET message == LowerMessage(error)
      includes(marker) == MessageIncludes(message, marker)
  IN IF includes("authentication") \/ includes("auth")
        \/ includes("invalid login") \/ includes("535")
     THEN [status |-> 401, message |-> "Error de autenticacion SMTP"]
     ELSE IF includes("connection") \/ includes("connect")
        \/ includes("timeout") \/ includes("enotfound")
        \/ includes("network") \/ includes("dns")
     THEN [status |-> 502, message |-> "Error de conexion con el servidor SMTP"]
     ELSE IF includes("tls") \/ includes("ssl") \/ includes("certificate")
     THEN [status |-> 502, message |-> "Error de seguridad TLS/SSL"]
     ELSE IF includes("recipient") \/ includes("invalid")
        \/ includes("550") \/ includes("553")
     THEN [status |-> 422, message |-> "Direccion de email invalida o rechazada"]
     ELSE [status |-> 500, message |-> "Error interno del servidor SMTP"]

\* the message of an error thrown by buildRFC822Message: a TypeError text,
\* which holds none of the markers
BuildErrorMessage == {}

\* the list in another order
fallbackMailboxes_Reordered == << "Sent", "Enviados", "Sent Items", "INBOX.Sent" >>

\* imap.js 74
fallbackMailboxes == << "Enviados", "Sent", "Sent Items", "INBOX.Sent" >>

\* values of process.env.IMAP_MAILBOX || 'Sent'
Mailboxes == { "Sent" }

\* the operations appendToSent issues on its client, getMailboxLock apart
\* (a_pc and a_fb tell which lock is being tried)
ClientOps == {"connect", "append", "release", "logout"}

Response(status, body) == [status |-> status, body |-> body]

SInit ==
  /\ saveSentCopy \in BOOLEAN
  /\ imapCreds \in BOOLEAN
  /\ mailbox \in Mailboxes
  /\ h_pc = [r \in Reqs |-> "idle"]
  /\ smtp = [r \in Reqs |-> "none"]
  /\ info = [r \in Reqs |-> NoInfo]
  /\ resp = [r \in Reqs |-> <<>>]
  /\ a_pc = [r \in Reqs |-> "none"]
  /\ a_calls = [r \in Reqs |-> 0]
  /\ a_raw = [r \in Reqs |-> "none"]
  /\ client = [r \in Reqs |-> FALSE]
  /\ a_lock = [r \in Reqs |-> ""]
  /\ a_fb = [r \in Reqs |-> 0]
  /\ a_n = [r \in Reqs |-> [op \in ClientOps |-> 0]]
  /\ a_fail = [r \in Reqs |-> "none"]
  /\ a_settled = [r \in Reqs |-> "none"]

\* no request: the server as it is after start-up
SIdle ==
  /\ SInit
  /\ saveSentCopy = TRUE
  /\ imapCreds = TRUE
  /\ mailbox = "Sent"

ConfigFrame == UNCHANGED << saveSentCopy, imapCreds, mailbox >>
AppendFrame ==
  UNCHANGED << a_pc, a_calls, a_raw, client, a_lock, a_fb, a_n, a_fail, a_settled >>

\* the 422 written without `return`: the handler goes on to sendMail
Receive_NoReturn(r) ==
  /\ h_pc[r] = "idle"
  /\ \E valid \in BOOLEAN :
       IF valid
       THEN /\ h_pc' = [h_pc EXCEPT ![r] = "sendMail"]
            /\ UNCHANGED resp
       ELSE /\ h_pc' = [h_pc EXCEPT ![r] = "sendMail"]
            /\ resp' = [resp EXCEPT ![r] =
                 Append(@, Response(422, "Datos de entrada invalidos"))]
  /\ UNCHANGED << smtp, info >>
  /\ AppendFrame /\ ConfigFrame /\ UNCHANGED << dvars, pvars >>

\* server.js 155-192: validateSendEmail; 422 and return when it fails
Receive(r) ==
  /\ h_pc[r] = "idle"
  /\ \E valid \in BOOLEAN :
       IF valid
       THEN /\ h_pc' = [h_pc EXCEPT ![r] = "sendMail"]
            /\ UNCHANGED resp
       ELSE /\ h_pc' = [h_pc EXCEPT ![r] = "done"]
            /\ resp' = [resp EXCEPT ![r] =
                 Append(@, Response(422, "Datos de entrada invalidos"))]
  /\ UNCHANGED << smtp, info >>
  /\ AppendFrame /\ ConfigFrame /\ UNCHANGED << dvars, pvars >>

\* server.js 194: await transporter.sendMail(mailOptions) resolves
SendMailOk(r) ==
  /\ h_pc[r] = "sendMail"
  /\ \E i \in Infos :
       info' = [info EXCEPT ![r] = i]
  /\ smtp' = [smtp EXCEPT ![r] = "ok"]
  /\ h_pc' = [h_pc EXCEPT ![r] = "hook"]
  /\ UNCHANGED resp
  /\ AppendFrame /\ ConfigFrame /\ UNCHANGED << dvars, pvars >>

\* server.js 232-250: the outer catch, for an error with message m
RespondError(r, m) ==
  /\ resp' = [resp EXCEPT ![r] =
       Append(@, Response(mapSmtpError(m).status, mapSmtpError(m).message))]
  /\ h_pc' = [h_pc EXCEPT ![r] = "done"]

\* server.js 194, 232-250: sendMail rejects
SendMailFails(r) ==
  /\ h_pc[r] = "sendMail"
  /\ smtp' = [smtp EXCEPT ![r] = "failed"]
  /\ \E m \in ErrorMessages : RespondError(r, m)
  /\ UNCHANGED info
  /\ AppendFrame /\ ConfigFrame /\ UNCHANGED << dvars, pvars >>

\* the check of `raw` (imap.js 47-50) left out
StartAppend_NoRawCheck(r, rawOk) ==
  /\ a_calls' = [a_calls EXCEPT ![r] = @ + 1]
  /\ a_raw' = [a_raw EXCEPT ![r] = IF rawOk THEN "string" ELSE "missing"]
  /\ IF ~saveSentCopy \/ ~imapCreds
     THEN /\ a_pc' = [a_pc EXCEPT ![r] = "done"]
          /\ a_settled' = [a_settled EXCEPT ![r] = "resolved"]
          /\ UNCHANGED client
     ELSE \E constructed \in BOOLEAN :
            IF constructed
            THEN /\ a_pc' = [a_pc EXCEPT ![r] = "connect"]
                 /\ a_settled' = [a_settled EXCEPT ![r] = "pending"]
                 /\ client' = [client EXCEPT ![r] = TRUE]
            ELSE /\ a_pc' = [a_pc EXCEPT ![r] = "done"]
                 /\ a_settled' = [a_settled EXCEPT ![r] = "resolved"]
                 /\ UNCHANGED client
  /\ UNCHANGED << a_lock, a_fb, a_n, a_fail >>

\* imap.js 18-64: appendToSent up to its first await.  The early returns of
\* lines 20-50 resolve the promise without creating a client; a throw of the
\* ImapFlow constructor is caught at line 104 with `client` undefined.
StartAppend(r, rawOk) ==
  /\ a_calls' = [a_calls EXCEPT ![r] = @ + 1]
  /\ a_raw' = [a_raw EXCEPT ![r] = IF rawOk THEN "string" ELSE "missing"]
  /\ IF ~saveSentCopy \/ ~imapCreds \/ ~rawOk
     THEN /\ a_pc' = [a_pc EXCEPT ![r] = "done"]
          /\ a_settled' = [a_settled EXCEPT ![r] = "resolved"]
          /\ UNCHANGED client
     ELSE \E constructed \in BOOLEAN :
            IF constructed
            THEN /\ a_pc' = [a_pc EXCEPT ![r] = "connect"]
                 /\ a_settled' = [a_settled EXCEPT ![r] = "pending"]
                 /\ client' = [client EXCEPT ![r] = TRUE]
            ELSE /\ a_pc' = [a_pc EXCEPT ![r] = "done"]
                 /\ a_settled' = [a_settled EXCEPT ![r] = "resolved"]
                 /\ UNCHANGED client
  /\ UNCHANGED << a_lock, a_fb, a_n, a_fail >>

\* no inner try: the throw of buildRFC822Message reaches the outer catch
HookCaught_Escapes(r) == RespondError(r, BuildErrorMessage)

\* server.js 208-213: the inner catch logs and the handler goes on
HookCaught(r) ==
  /\ h_pc' = [h_pc EXCEPT ![r] = "respond"]
  /\ UNCHANGED resp

\* the hook run whatever the flag says
HookEnabled_Always == TRUE

\* server.js 197: the copy-saving flag guards the hook
HookEnabled == saveSentCopy

\* server.js 196-214: the IMAP hook
Hook(r) ==
  /\ h_pc[r] = "hook"
  /\ IF HookEnabled
     THEN \E built \in BOOLEAN :
            IF built
            THEN /\ StartAppend(r, TRUE)
                 /\ h_pc' = [h_pc EXCEPT ![r] = "respond"]
                 /\ UNCHANGED resp
            ELSE /\ HookCaught(r)
                 /\ AppendFrame
     ELSE /\ h_pc' = [h_pc EXCEPT ![r] = "respond"]
          /\ UNCHANGED resp
          /\ AppendFrame
  /\ UNCHANGED << smtp, info >>
  /\ ConfigFrame /\ UNCHANGED << dvars, pvars >>

\* await appendToSent(...): the handler resumes when the append has settled
ResponseReady_Awaits(r) ==
  h_pc[r] = "respond" /\ a_settled[r] \in {"none", "resolved", "rejected"}

\* server.js 203-216: appendToSent(...) is not awaited; the statement after
\* the hook runs as soon as the hook is left
ResponseReady(r) == h_pc[r] = "respond"

\* server.js 216-231: res.json({messageId, accepted, rejected})
Respond(r) ==
  /\ ResponseReady(r)
  /\ resp' = [resp EXCEPT ![r] = Append(@, Response(200, info[r]))]
  /\ h_pc' = [h_pc EXCEPT ![r] = "done"]
  /\ UNCHANGED << smtp, info >>
  /\ AppendFrame /\ ConfigFrame /\ UNCHANGED << dvars, pvars >>

\* ----------------------------------------------------------- appendToSent
HandlerFrame == UNCHANGED << h_pc, smtp, info, resp >>

\* one more client operation of kind op issued by the append of request r
Counted(r, op) == [a_n EXCEPT ![r][op] = @ + 1]

\* the first client operation of the append of request r that failed
Failed(r, op, ok) ==
  IF ~ok /\ a_fail[r] = "none" THEN [a_fail EXCEPT ![r] = op] ELSE a_fail

\* imap.js 64, 104-108: await client.connect()
AConnect(r) ==
  /\ a_pc[r] = "connect"
  /\ \E ok \in BOOLEAN :
       /\ a_fail' = Failed(r, "connect", ok)
       /\ a_pc' = [a_pc EXCEPT ![r] = IF ok THEN "lock" ELSE "logout"]
  /\ a_n' = Counted(r, "connect")
  /\ UNCHANGED << a_calls, a_raw, client, a_lock, a_fb, a_settled >>
  /\ HandlerFrame /\ ConfigFrame /\ UNCHANGED << dvars, pvars >>

\* one lock for all appends: getMailboxLock waits while another call holds one
ALock_Exclusive(r) ==
  /\ a_pc[r] = "lock"
  /\ \A q \in Reqs \ {r} : a_lock[q] = ""
  /\ \E ok \in BOOLEAN :
       /\ IF ok
          THEN /\ a_lock' = [a_lock EXCEPT ![r] = mailbox]
               /\ a_pc' = [a_pc EXCEPT ![r] = "append"]
               /\ UNCHANGED a_fb
          ELSE /\ a_pc' = [a_pc EXCEPT ![r] = "fallback"]
               /\ a_fb' = [a_fb EXCEPT ![r] = 1]
               /\ UNCHANGED a_lock
       /\ a_fail' = Failed(r, "lock", ok)
  /\ UNCHANGED << a_calls, a_raw, client, a_settled, a_n >>
  /\ HandlerFrame /\ ConfigFrame /\ UNCHANGED << dvars, pvars >>

\* imap.js 69-77: getMailboxLock(mailbox)
ALock(r) ==
  /\ a_pc[r] = "lock"
  /\ \E ok \in BOOLEAN :
       /\ IF ok
          THEN /\ a_lock' = [a_lock EXCEPT ![r] = mailbox]
               /\ a_pc' = [a_pc EXCEPT ![r] = "append"]
               /\ UNCHANGED a_fb
             ELSE /\ a_pc' = [a_pc EXCEPT ![r] = "fallback"]
               /\ a_fb' = [a_fb EXCEPT ![r] = 1]
               /\ UNCHANGED a_lock
       /\ a_fail' = Failed(r, "lock", ok)
  /\ UNCHANGED << a_calls, a_raw, client, a_settled, a_n >>
  /\ HandlerFrame /\ ConfigFrame /\ UNCHANGED << dvars, pvars >>

\* imap.js 78-90: one turn of the fallback loop; the throw of line 89 when
\* the list is exhausted with no lock.  The loop variable is out of scope
\* once the loop is left.
AFallback(r) ==
  /\ a_pc[r] = "fallback"
  /\ LET fallback == fallbackMailboxes[a_fb[r]]
     IN \E ok \in BOOLEAN :
          IF ok
          THEN /\ a_lock' = [a_lock EXCEPT ![r] = fallback]
               /\ a_pc' = [a_pc EXCEPT ![r] = "append"]
               /\ a_fb' = [a_fb EXCEPT ![r] = 0]
               /\ UNCHANGED a_fail
          ELSE IF a_fb[r] < Len(fallbackMailboxes)
          THEN /\ a_fb' = [a_fb EXCEPT ![r] = @ + 1]
               /\ UNCHANGED << a_lock, a_pc, a_fail >>
          ELSE /\ a_pc' = [a_pc EXCEPT ![r] = "logout"]
               /\ a_fb' = [a_fb EXCEPT ![r] = 0]
               /\ a_fail' = Failed(r, "lock", FALSE)
               /\ UNCHANGED a_lock
  /\ UNCHANGED << a_calls, a_raw, client, a_settled, a_n >>
  /\ HandlerFrame /\ ConfigFrame /\ UNCHANGED << dvars, pvars >>

\* the release after the append instead of in a finally: a failed append
\* leaves the lock held
AAppend_NoFinally(r) ==
  /\ a_pc[r] = "append"
  /\ \E appended \in BOOLEAN, released \in BOOLEAN :
       /\ a_fail' = IF ~appended THEN Failed(r, "append", FALSE)
                    ELSE Failed(r, "release", released)
       /\ a_n' = IF appended
                 THEN [a_n EXCEPT ![r]["append"] = @ + 1, ![r]["release"] = @ + 1]
                 ELSE Counted(r, "append")
       /\ a_lock' = IF appended THEN [a_lock EXCEPT ![r] = ""] ELSE a_lock
  /\ a_pc' = [a_pc EXCEPT ![r] = "logout"]
  /\ UNCHANGED << a_calls, a_raw, client, a_fb, a_settled >>
  /\ HandlerFrame /\ ConfigFrame /\ UNCHANGED << dvars, pvars >>

\* imap.js 93-108: await client.append(lock.path, ...), then the finally that
\* calls lock.release() synchronously; an error of either is caught at 104
AAppend(r) ==
  /\ a_pc[r] = "append"
  /\ \E appended \in BOOLEAN, released \in BOOLEAN :
       a_fail' = IF ~appended THEN Failed(r, "append", FALSE)
                 ELSE Failed(r, "release", released)
  /\ a_n' = [a_n EXCEPT ![r]["append"] = @ + 1, ![r]["release"] = @ + 1]
  /\ a_lock' = [a_lock EXCEPT ![r] = ""]
  /\ a_pc' = [a_pc EXCEPT ![r] = "logout"]
  /\ UNCHANGED << a_calls, a_raw, client, a_fb, a_settled >>
  /\ HandlerFrame /\ ConfigFrame /\ UNCHANGED << dvars, pvars >>

\* logout outside any try: its throw rejects the promise of appendToSent
LogoutOutcome_Unguarded(ok) == IF ok THEN "resolved" ELSE "rejected"

\* imap.js 111-116: a throw of client.logout() is caught and logged, so the
\* promise of appendToSent resolves either way
LogoutOutcome(ok) == "resolved"

\* imap.js 108-118: finally { if (client) try { await client.logout() } ... }
ALogout(r) ==
  /\ a_pc[r] = "logout"
  /\ client[r]
  /\ \E ok \in BOOLEAN :
       /\ a_fail' = Failed(r, "logout", ok)
       /\ a_settled' = [a_settled EXCEPT ![r] = LogoutOutcome(ok)]
  /\ a_n' = Counted(r, "logout")
  /\ a_pc' = [a_pc EXCEPT ![r] = "done"]
  /\ UNCHANGED << a_calls, a_raw, client, a_lock, a_fb >>
  /\ HandlerFrame /\ ConfigFrame /\ UNCHANGED << dvars, pvars >>

HandlerStep(r) ==
  \/ Receive(r)
  \/ SendMailOk(r)
  \/ SendMailFails(r)
  \/ Hook(r)
  \/ Respond(r)

AppendStep(r) ==
  \/ AConnect(r)
  \/ ALock(r)
  \/ AFallback(r)
  \/ AAppend(r)
  \/ ALogout(r)

SendNext == \E r \in Reqs : HandlerStep(r) \/ AppendStep(r)

\* imap.js 18, 187-190: appendToSent is exported; a caller other than the
\* /send hook calls it with any `raw` and whatever the flag says
DirectCall(r) ==
  /\ a_calls[r] = 0
  /\ \E rawOk \in BOOLEAN : StartAppend(r, rawOk)
  /\ HandlerFrame /\ ConfigFrame /\ UNCHANGED << dvars, pvars >>

AppendNext == \E r \in Reqs : DirectCall(r) \/ AppendStep(r)

\* ------------------------------------------------------------ specifications
\* no pure function under application
PIdle ==
  /\ p_fn = "none"
  /\ p_in = Null
  /\ p_done = FALSE
  /\ p_out = Null

Init == DInit /\ SIdle /\ PIdle

\* one run of findOrCreateSentBox against an arbitrary server
Spec == Init /\ [][Next]_vars

SendInit == DIdle /\ SInit /\ PIdle

\* NumReqs concurrent /send requests, each with its background append
SendSpec == SendInit /\ [][SendNext]_vars

\* the event loop runs every continuation of a handler whose awaited promise
\* has settled; nothing obliges the IMAP server to answer an append task
SendFairSpec == SendSpec /\ \A r \in Reqs : WF_vars(HandlerStep(r))

\* NumReqs concurrent direct calls of appendToSent, under any configuration
AppendSpec == SendInit /\ [][AppendNext]_vars

\* the call of a pure function fn on an argument drawn from inputs
PInit(fn, inputs) ==
  /\ DIdle /\ SIdle
  /\ p_fn = fn
  /\ p_in \in inputs
  /\ p_done = FALSE
  /\ p_out = Null

\* the function returns result
PReturn(fn, result) ==
  /\ p_fn = fn
  /\ ~p_done
  /\ p_out' = result
  /\ p_done' = TRUE
  /\ UNCHANGED << p_fn, p_in, dvars, svars >>

\* error messages of up to MaxWords words
MapInputs == { m \in SUBSET Words : Cardinality(m) <= MaxWords }

\* server.js 233: const mappedError = mapSmtpError(error)
ApplyMapSmtpError ==
  /\ p_fn = "mapSmtpError"
  /\ PReturn("mapSmtpError", mapSmtpError(p_in))

\* ------------------------------------------------------ buildRFC822Message
\* JavaScript values: undefined, a string (its tokens, "" being no token), an
\* array of strings
Undefined == [t |-> "undefined"]
Str(tokens) == [t |-> "string", v |-> tokens]
Arr(elements) == [t |-> "array", v |-> elements]

\* ToBoolean: undefined and "" are falsy, every array is truthy
Truthy(x) ==
  CASE x.t = "undefined" -> FALSE
    [] x.t = "string" -> x.v # << >>
    [] x.t = "array" -> TRUE

\* x || y
Or(x, y) == IF Truthy(x) THEN x ELSE y

\* Array.prototype.join(sep) on an array of strings, from element i on
RECURSIVE JoinFrom(_, _, _)
JoinFrom(elements, sep, i) ==
  IF i > Len(elements) THEN << >>
  ELSE IF i = Len(elements) THEN elements[i].v
  ELSE elements[i].v \o << sep >> \o JoinFrom(elements, sep, i + 1)

Join(x, sep) == Str(JoinFrom(x.v, sep, 1))

\* `${x}` in a template literal
Interpolate(x) ==
  CASE x.t = "undefined" -> << "undefined" >>
    [] x.t = "string" -> x.v
    [] x.t = "array" -> JoinFrom(x.v, ",", 1)

\* imap.js 143-153: an optional header, emitted when the option is truthy;
\* a message is the sequence of its lines, a line the sequence of its tokens
OptionalHeader(name, option) ==
  IF Truthy(option)
  THEN LET value == IF option.t = "array" THEN Join(option, ", ") ELSE option
       IN << << name >> \o Interpolate(value) >>
  ELSE << >>

\* the html part put before the text part
BodyOf_HtmlFirst(text, html, boundary) ==
  IF Truthy(html) /\ Truthy(text)
  THEN << << "Content-Type: ", "multipart/alternative", "; boundary=\"" >>
            \o boundary \o << "\"" >>,
          << >>,
          << "--" >> \o boundary,
          << "Content-Type: ", "text/html", "; charset=utf-8" >>,
          << "Content-Transfer-Encoding: ", "8bit" >>,
          << >>,
          Interpolate(html),
          << >>,
          << "--" >> \o boundary,
          << "Content-Type: ", "text/plain", "; charset=utf-8" >>,
          << "Content-Transfer-Encoding: ", "8bit" >>,
          << >>,
          Interpolate(text),
          << >>,
          << "--" >> \o boundary \o << "--" >> >>
  ELSE IF Truthy(html)
  THEN << << "Content-Type: ", "text/html", "; charset=utf-8" >>,
          << "Content-Transfer-Encoding: ", "8bit" >>,
          << >>,
          Interpolate(html) >>
  ELSE << << "Content-Type: ", "text/plain", "; charset=utf-8" >>,
          << "Content-Transfer-Encoding: ", "8bit" >>,
          << >>,
          Interpolate(text) >>

\* imap.js 155-182: the body, for `text` and `html` of lines 131-132
BodyOf(text, html, boundary) ==
  IF Truthy(html) /\ Truthy(text)
  THEN << << "Content-Type: ", "multipart/alternative", "; boundary=\"" >>
            \o boundary \o << "\"" >>,
          << >>,
          << "--" >> \o boundary,
          << "Content-Type: ", "text/plain", "; charset=utf-8" >>,
          << "Content-Transfer-Encoding: ", "8bit" >>,
          << >>,
          Interpolate(text),
          << >>,
          << "--" >> \o boundary,
          << "Content-Type: ", "text/html", "; charset=utf-8" >>,
          << "Content-Transfer-Encoding: ", "8bit" >>,
          << >>,
          Interpolate(html),
          << >>,
          << "--" >> \o boundary \o << "--" >> >>
  ELSE IF Truthy(html)
  THEN << << "Content-Type: ", "text/html", "; charset=utf-8" >>,
          << "Content-Transfer-Encoding: ", "8bit" >>,
          << >>,
          Interpolate(html) >>
  ELSE << << "Content-Type: ", "text/plain", "; charset=utf-8" >>,
          << "Content-Transfer-Encoding: ", "8bit" >>,
          << >>,
          Interpolate(text) >>

\* imap.js 127-185; now and rnd are what Date.now() / new Date() and
\* Math.random().toString(36) give during the call
buildRFC822Message(mailOptions, fromEmail, now, rnd) ==
  LET from == Or(fromEmail, Or(mailOptions.from, Str(<< "noreply@piensaajedrez.com" >>)))
      to == IF mailOptions.to.t = "array" THEN Join(mailOptions.to, ", ")
            ELSE mailOptions.to
      subject == Or(mailOptions.subject, Str(<< >>))
      text == Or(mailOptions.text, Str(<< >>))
      html == mailOptions.html
      messageId == Or(mailOptions.messageId,
                      Str(<< "<", now, ".", rnd, "@piensaajedrez.com>" >>))
      boundary == << "boundary_", now, "_", rnd >>
  IN << << "Message-ID: " >> \o Interpolate(messageId),
        << "Date: ", now >>,
        << "From: " >> \o Interpolate(from),
        << "To: " >> \o Interpolate(to),
        << "Subject: " >> \o Interpolate(subject),
        << "MIME-Version: ", "1.0" >> >>
     \o OptionalHeader("Cc: ", mailOptions.cc)
     \o OptionalHeader("Bcc: ", mailOptions.bcc)
     \o BodyOf(text, html, boundary)

\* values of a cc or bcc option
Recipients ==
  { Undefined, Str(<< >>), Str(<< "c@x" >>) }
    \cup { Arr(a) : a \in ListsUpTo({ Str(<< "c@x" >>), Str(<< "d@x" >>),
                                      Str(<< "e@x" >>) }, MaxRecipients) }

\* values of the text and of the html option
Texts == { Undefined, Str(<< >>), Str(<< "hello" >>) }
Htmls == { Undefined, Str(<< >>), Str(<< "<p>hello</p>" >>) }

\* server.js 179-186: the options of a message; cc and bcc as any caller of
\* the exported function may give them
MailOptions ==
  [ from : { Undefined },
    to : { Str(<< "a@x" >>), Arr(<< Str(<< "a@x" >>), Str(<< "b@x" >>) >>) },
    subject : { Str(<< "Hi" >>) },
    text : Texts,
    html : Htmls,
    cc : Recipients,
    bcc : Recipients,
    attachments : { Undefined, Arr(<< Str(<< "a.pdf" >>) >>) },
    messageId : { Undefined } ]

BuildInputs ==
  [ mailOptions : MailOptions, fromEmail : { Undefined, Str(<< "relay@x" >>) } ]

\* server.js 200: buildRFC822Message(mailOptions, process.env.FROM_EMAIL)
ApplyBuildRFC822Message ==
  /\ p_fn = "buildRFC822Message"
  /\ \E now \in { "t1" }, rnd \in { "0.r1", "0.r2" } :
       PReturn("buildRFC822Message",
               buildRFC822Message(p_in.mailOptions, p_in.fromEmail, now, rnd))

\* buildRFC822Message applied to any message
MessageSpec ==
  PInit("buildRFC822Message", BuildInputs) /\ [][ApplyBuildRFC822Message]_vars

\* paths the delimiter detection is applied to: top-level names, one level
\* under INBOX with either separator, and names that hold both characters
DelimiterUniverse ==
  { <<"INBOX">>, <<"Drafts">>,
    <<"INBOX", "/", "Work">>, <<"INBOX", ".", "Work">>,
    <<"INBOX", ".", "Work", "/", "2024">>,
    <<"Archive", "/", "v1", ".", "2">> }

DelimiterInputs == ListsUpTo(DelimiterUniverse, MaxPaths)

\* server.js 390-400 on the result of list('*')
ApplyDetectDelimiter ==
  /\ p_fn = "detectDelimiter"
  /\ PReturn("detectDelimiter", DetectDelimiter(p_in))

\* the delimiter detection applied to any listing
DelimiterSpec == PInit("detectDelimiter", DelimiterInputs) /\ [][ApplyDetectDelimiter]_vars

\* paths the name matching is applied to: folders that match candidates,
\* two that differ in case only, one per separator, one that matches none
NameUniverse ==
  { <<"Sent">>, <<"SENT">>, <<"Sent Items">>, <<"Enviados">>,
    <<"INBOX", ".", "Sent">>, <<"INBOX", "/", "Sent Items">>, <<"Drafts">> }

NameInputs == ListsUpTo(NameUniverse, MaxNames)

\* server.js 390-421 on the result of list('*'), special-use having found
\* nothing: the delimiter detection, then the name matching
ApplyMatchByName ==
  /\ p_fn = "matchByName"
  /\ PReturn("matchByName", MatchByName(p_in, DetectDelimiter(p_in)))

\* the name matching applied to any listing
NameSpec == PInit("matchByName", NameInputs) /\ [][ApplyMatchByName]_vars

\* mapSmtpError applied to any error message
MapSpec == PInit("mapSmtpError", MapInputs) /\ [][ApplyMapSmtpError]_vars


\* ------------------------------------------------------------------ claims
IsCreate(e) == e.op = "create"
IsAppend(e) == e.op = "append"
IsLogout(e) == e.op = "logout"

\* the session of the discovery run was opened
Connected == \E i \in DOMAIN d_log : d_log[i].op = "connect" /\ d_log[i].res = "ok"

\* some mailbox creation was attempted, in step 4 or in step 5
CreationAttempted ==
  \E i \in DOMAIN d_log : d_log[i].op \in {"create", "retryCreate"}

\* the special-use listing holds a folder with the Sent designation
SpecialHasSent ==
  \E i \in DOMAIN special :
    ("\\Sent" \in special[i].flags) \/ (special[i].specialUse = "\\Sent")

\* C1: in every finished run of findOrCreateSentBox whose connect succeeded,
\* logout was invoked exactly once
C1_LogoutExactlyOnce ==
  (d_pc = "done" /\ Connected) => Len(SelectSeq(d_log, IsLogout)) = 1

\* C2: once the SMTP send of a request has succeeded, the only response the
\* request ever has is 200 with the SMTP result as its body, in every state
\* the append task goes through
C2_ResponseFromSmtpOnly ==
  \A r \in Reqs :
    (smtp[r] = "ok" /\ resp[r] # <<>>) => resp[r] = << Response(200, info[r]) >>

\* a request answered 200 whose append task has failed and finished
C2_Witness ==
  \E r \in Reqs :
    /\ resp[r] = << Response(200, info[r]) >>
    /\ smtp[r] = "ok"
    /\ a_pc[r] = "done"
    /\ a_fail[r] \in {"connect", "lock", "append", "release"}

\* C3: after a successful SMTP send the response is eventually sent, with no
\* assumption that the append task ever takes a step
C3_ResponseNotDelayed ==
  \A r \in Reqs : (smtp[r] = "ok") ~> (Len(resp[r]) = 1)

\* a response sent while the append of the same request still waits for its
\* IMAP connect
C3_Witness ==
  \E r \in Reqs :
    /\ Len(resp[r]) = 1
    /\ h_pc[r] = "done"
    /\ a_pc[r] = "connect"
    /\ a_settled[r] = "pending"

\* C4 as stated: with a special-use Sent folder listed, a returned sentPath
\* is that folder's path, no name matching is performed and no mailbox
\* creation is attempted
C4_NoCreationWithSpecialUse ==
  SpecialHasSent =>
    /\ ~matched
    /\ ~CreationAttempted
    /\ d_result = "returned" =>
         \E i \in DOMAIN special :
           /\ (("\\Sent" \in special[i].flags) \/ (special[i].specialUse = "\\Sent"))
           /\ special[i].path = sentPath

\* C4 amended: with a special-use Sent folder listed, a returned sentPath is
\* the path of the first such folder, no name matching is performed and no
\* creation of step 4 is attempted; the only creation is the one of the
\* TRYCREATE recovery, of that same path, right after the probe append was
\* rejected with TRYCREATE
C4_SpecialUseSelected ==
  SpecialHasSent =>
    /\ ~matched
    /\ SelectSeq(d_log, IsCreate) = <<>>
    /\ sentPath # Null =>
         \E i \in DOMAIN special :
           /\ (("\\Sent" \in special[i].flags) \/ (special[i].specialUse = "\\Sent"))
           /\ special[i].path = sentPath
           /\ \A j \in 1..(i - 1) :
                ~(("\\Sent" \in special[j].flags) \/ (special[j].specialUse = "\\Sent"))
    /\ \A k \in DOMAIN d_log :
         d_log[k].op = "retryCreate" =>
           /\ d_log[k].arg = sentPath
           /\ k > 1
           /\ d_log[k - 1] = Logged("append", sentPath, "trycreate")

\* a run that returned the second folder of a special-use listing, the first
\* one not being a Sent folder
C4_Witness ==
  /\ d_result = "returned"
  /\ Len(special) = 2
  /\ special[1].specialUse = "\\Drafts"
  /\ special[2].path = sentPath
  /\ "\\Sent" \in special[2].flags

\* some listed folder matches a candidate name, ignoring case
NameMatches ==
  \E i \in DOMAIN all : \E k \in DOMAIN Candidates(delimiter) :
    ToLowerCase(all[i]) = ToLowerCase(Candidates(delimiter)[k])

C6_OneCreationInOrder ==
  LET cs == SelectSeq(d_log, IsCreate)
  IN /\ \A k \in DOMAIN cs : cs[k].arg = TryPaths(delimiter)[k]
     /\ \A k \in DOMAIN cs : k < Len(cs) => cs[k].res = "err"
     /\ (d_result = "returned" /\ cs # <<>>) =>
          Cardinality({ k \in DOMAIN cs : cs[k].res = "ok" }) = 1
     /\ (Len(cs) = 3 /\ \A k \in DOMAIN cs : cs[k].res = "err") =>
          d_result # "returned"

\* C7: after a first probe append rejected with TRYCREATE, the finished run
\* has returned when the create and the second append succeeded, and has
\* failed when either was rejected; no run issues a third append
C7_TrycreateRecovery ==
  LET as == SelectSeq(d_log, IsAppend)
      retryOk ==
        /\ \E k \in DOMAIN d_log : d_log[k] = Logged("retryCreate", sentPath, "ok")
        /\ Len(as) = 2
        /\ as[2].res = "ok"
  IN /\ Len(as) <= 2
     /\ (d_pc = "done" /\ as # <<>> /\ as[1].res = "trycreate") =>
          IF retryOk
          THEN d_result = "returned"
          ELSE d_result = "threw"

\* C8: the resolved sentPath is a path the server reported in a list response
\* of this run
C8_SentPathWasReported ==
  sentPath # Null => sentPath \in reported

\* a run that returned a folder it created in step 4
C8_Witness ==
  /\ d_result = "returned"
  /\ created
  /\ sentPath \in reported
  /\ sentPath \notin Paths(all)

\* C9: the promise of appendToSent never rejects, and it is resolved once the
\* call has finished
C9_AppendNeverRejects ==
  \A r \in Reqs :
    /\ a_settled[r] # "rejected"
    /\ a_pc[r] = "done" => a_settled[r] = "resolved"

\* an append whose only failure is a logout that threw, and which resolved
C9_Witness ==
  \E r \in Reqs :
    /\ a_pc[r] = "done"
    /\ a_n[r]["logout"] = 1
    /\ a_fail[r] = "logout"
    /\ a_settled[r] = "resolved"

\* C10: a request calls appendToSent at most once, and only with its SMTP
\* send succeeded and the flag on; a request whose validation or SMTP send
\* failed has no append task, no client and no client operation
C10_AppendOnlyAfterSmtpSuccess ==
  \A r \in Reqs :
    /\ a_calls[r] <= 1
    /\ a_calls[r] = 1 => (smtp[r] = "ok" /\ saveSentCopy)
    /\ (a_pc[r] # "none" \/ client[r]) => a_calls[r] = 1
    /\ smtp[r] # "ok" =>
         /\ a_pc[r] = "none"
         /\ ~client[r]
         /\ \A op \in ClientOps : a_n[r][op] = 0

\* one request rejected before any append while another has appended its copy
C10_Witness ==
  \E r, q \in Reqs :
    /\ smtp[r] = "failed"
    /\ h_pc[r] = "done"
    /\ a_calls[r] = 0
    /\ a_calls[q] = 1
    /\ a_n[q]["append"] = 1

\* C11: a call of appendToSent made while the copy-saving flag is not true, or
\* while the IMAP user or password is missing, or with no raw message, creates
\* no client, issues no connect, lock, append, release or logout, and its
\* promise resolves
C11_DisabledCallDoesNothing ==
  \A r \in Reqs :
    (a_calls[r] = 1 /\ (~saveSentCopy \/ ~imapCreds \/ a_raw[r] = "missing")) =>
      /\ ~client[r]
      /\ \A op \in ClientOps : a_n[r][op] = 0
      /\ a_lock[r] = "" /\ a_fb[r] = 0
      /\ a_fail[r] = "none"
      /\ a_pc[r] = "done"
      /\ a_settled[r] = "resolved"

\* a call with the flag and the credentials set but no raw message has returned
C11_Witness ==
  \E r \in Reqs :
    /\ saveSentCopy /\ imapCreds
    /\ a_calls[r] = 1 /\ a_raw[r] = "missing"
    /\ a_pc[r] = "done"

\* C12: when the lock of the configured mailbox fails, the fallback names
\* Enviados, Sent, Sent Items, INBOX.Sent are tried in that order, one after
\* the failure of the one before, and the append is issued once, under the
\* lock of the first name that locked; when the configured mailbox locks no
\* fallback is tried; when the last fallback fails no append is issued
C12_FallbackInOrder ==
  /\ [](\A r \in Reqs :
          a_pc[r] = "append" => (a_lock[r] # "" /\ a_n[r]["append"] = 0))
  /\ [][\A r \in Reqs :
        LET order == << "Enviados", "Sent", "Sent Items", "INBOX.Sent" >>
        IN /\ (a_pc[r] = "lock" /\ a_pc'[r] # "lock") =>
                \/ /\ a_lock'[r] = mailbox
                   /\ a_pc'[r] = "append"
                   /\ a_fb'[r] = 0
                \/ /\ a_lock'[r] = ""
                   /\ a_pc'[r] = "fallback"
                   /\ a_fb'[r] = 1
           /\ (a_pc'[r] = "fallback" /\ a_pc[r] # "fallback") => a_pc[r] = "lock"
           /\ (a_pc[r] = "fallback" /\ (a_pc'[r] # "fallback" \/ a_fb'[r] # a_fb[r])) =>
                \/ /\ a_lock'[r] = order[a_fb[r]]
                   /\ a_pc'[r] = "append"
                \/ /\ a_lock'[r] = ""
                   /\ a_fb[r] < Len(order)
                   /\ a_fb'[r] = a_fb[r] + 1
                   /\ a_pc'[r] = "fallback"
                \/ /\ a_lock'[r] = ""
                   /\ a_fb[r] = Len(order)
                   /\ a_pc'[r] = "logout"
                   /\ a_n'[r] = a_n[r]
           /\ (a_lock'[r] # a_lock[r] /\ a_lock'[r] # "") =>
                (a_lock[r] = "" /\ a_pc[r] \in {"lock", "fallback"})
           /\ a_n'[r]["append"] # a_n[r]["append"] =>
                /\ a_lock[r] # ""
                /\ a_n[r]["append"] = 0
                /\ a_n'[r]["append"] = 1
     ]_vars

\* the configured mailbox failed to lock, a fallback locked and the append
\* was issued
C12_Witness ==
  \E r \in Reqs :
    /\ a_fail[r] = "lock"
    /\ a_n[r]["append"] = 1

\* C13: an appendToSent call whose client was created issues logout once, as
\* its last operation; a lock it acquired is released once, by the step that
\* attempted the append, and is no longer held when logout is issued
C13_ReleaseThenLogoutLast ==
  /\ [](\A r \in Reqs :
          /\ a_n[r]["logout"] <= 1
          /\ a_n[r]["release"] <= 1
          /\ (a_pc[r] = "done" /\ client[r]) => a_n[r]["logout"] = 1
          /\ a_n[r]["logout"] = 1 => a_pc[r] = "done"
          /\ a_lock[r] # "" => (a_n[r]["release"] = 0 /\ a_n[r]["logout"] = 0)
          /\ a_pc[r] \in {"logout", "done"} =>
               (a_lock[r] = "" /\ a_n[r]["release"] = a_n[r]["append"]))
  /\ [][\A r \in Reqs :
          /\ a_n[r]["logout"] = 1 => (a_n'[r] = a_n[r] /\ a_lock'[r] = a_lock[r])
          /\ (a_lock[r] # "" /\ a_lock'[r] = "") =>
               a_n'[r]["release"] = a_n[r]["release"] + 1
          /\ a_n'[r]["release"] # a_n[r]["release"] =>
               /\ a_lock[r] # "" /\ a_lock'[r] = ""
               /\ a_n'[r]["append"] = 1
               /\ a_n[r]["logout"] = 0
     ]_vars

\* an append that failed under a held lock, followed by the release and by
\* the logout
C13_Witness ==
  \E r \in Reqs :
    /\ a_fail[r] = "append"
    /\ a_n[r]["release"] = 1
    /\ a_n[r]["logout"] = 1
    /\ a_pc[r] = "done"

\* C14: with NumReqs requests in flight under every interleaving, a request
\* whose handler has not finished always has a handler step it can take and
\* an append that has started and not finished always has an append step it
\* can take, whatever the other requests are doing; and a step changes the
\* handler state, the response, the client, the lock and the operation
\* counters of one request only
C14_RequestsIndependent ==
  /\ [](\A r \in Reqs :
          /\ h_pc[r] # "done" => ENABLED HandlerStep(r)
          /\ a_pc[r] \notin {"none", "done"} => ENABLED AppendStep(r))
  /\ [][\A r \in Reqs : \A q \in Reqs \ {r} :
          LET own(x) == << h_pc[x], smtp[x], info[x], resp[x], a_pc[x],
                           a_calls[x], a_raw[x], client[x], a_lock[x],
                           a_fb[x], a_n[x], a_fail[x], a_settled[x] >>
          IN own(r)' # own(r) => own(q)' = own(q)
     ]_vars

\* two appends with a session each at the same time: one holds the lock of
\* the configured mailbox, the other is about to ask for it
C14_Witness ==
  \E r \in Reqs : \E q \in Reqs \ {r} :
    /\ client[r] /\ client[q]
    /\ a_pc[r] = "append" /\ a_lock[r] = mailbox
    /\ a_pc[q] = "lock"
    /\ h_pc[r] = "done" /\ h_pc[q] = "respond"

\* C15: a /send request never has more than one response and has one when
\* its handler is done; the response is 422 for failed validation when no
\* sendMail was attempted, 200 with the sendMail result when sendMail
\* resolved, and one of 401, 422, 500, 502 with an error text when sendMail
\* rejected
C15_ExactlyOneResponse ==
  \A r \in Reqs :
    /\ Len(resp[r]) <= 1
    /\ h_pc[r] = "done" => Len(resp[r]) = 1
    /\ resp[r] # << >> =>
         /\ h_pc[r] = "done"
         /\ \/ /\ smtp[r] = "none"
               /\ resp[r][1] = Response(422, "Datos de entrada invalidos")
            \/ /\ smtp[r] = "ok"
               /\ resp[r][1].status = 200
               /\ resp[r][1].body = info[r]
               /\ DOMAIN resp[r][1].body = {"messageId", "accepted", "rejected"}
            \/ /\ smtp[r] = "failed"
               /\ resp[r][1].status \in {401, 422, 500, 502}
               /\ resp[r][1].body \in
                    { "Error de autenticacion SMTP",
                      "Error de conexion con el servidor SMTP",
                      "Error de seguridad TLS/SSL",
                      "Direccion de email invalida o rechazada",
                      "Error interno del servidor SMTP" }

\* one request answered 422 by validation next to one whose sendMail rejected
\* and which was answered with an error status
C15_Witness ==
  \E r \in Reqs : \E q \in Reqs \ {r} :
    /\ h_pc[r] = "done" /\ smtp[r] = "none" /\ Len(resp[r]) = 1
    /\ h_pc[q] = "done" /\ smtp[q] = "failed" /\ Len(resp[q]) = 1

\* C16: mapSmtpError returns 401 when the lowercase message holds an
\* authentication marker; else 502 when it holds a connectivity marker; else
\* 502 when it holds a TLS marker; else 422 when it holds a recipient marker;
\* else 500
C16_StatusOfFirstClass ==
  (p_fn = "mapSmtpError" /\ p_done) =>
    LET lower == { LowerText(w) : w \in p_in }
        has(markers) ==
          \E w \in lower : \E m \in markers : WordIncludes(w, m)
        auth == has({"authentication", "auth", "invalid login", "535"})
        conn == has({"connection", "connect", "timeout", "enotfound",
                     "network", "dns"})
        tls  == has({"tls", "ssl", "certificate"})
        rcpt == has({"recipient", "invalid", "550", "553"})
    IN /\ auth => p_out.status = 401
       /\ (~auth /\ conn) => p_out.status = 502
       /\ (~auth /\ ~conn /\ tls) => p_out.status = 502
       /\ (~auth /\ ~conn /\ ~tls /\ rcpt) => p_out.status = 422
       /\ (~auth /\ ~conn /\ ~tls /\ ~rcpt) => p_out.status = 500

\* "Invalid login ... 550" holds an authentication marker and two recipient
\* markers, and was mapped to 401
C16_Witness ==
  /\ p_fn = "mapSmtpError" /\ p_done
  /\ p_in = {"Invalid login", "550"}
  /\ p_out.status = 401

\* C17: the detected delimiter is '/' when no listed path holds '/' or '.';
\* otherwise it is decided by the first listed path that holds one of them:
\* '/' when that path holds '/', '.' when it holds '.' only.  So
\* [INBOX, INBOX/Work, Drafts] gives '/' and [INBOX, INBOX.Work] gives '.'
C17_DelimiterOfFirstNested ==
  (p_fn = "detectDelimiter" /\ p_done) =>
    LET nested == { i \in DOMAIN p_in :
                      Includes(p_in[i], "/") \/ Includes(p_in[i], ".") }
    IN /\ nested = {} => p_out = "/"
       /\ nested # {} =>
            LET first == p_in[Min(nested)]
            IN /\ Includes(first, "/") => p_out = "/"
               /\ ~Includes(first, "/") => p_out = "."
       /\ p_in = << <<"INBOX">>, <<"INBOX", "/", "Work">>, <<"Drafts">> >>
            => p_out = "/"
       /\ p_in = << <<"INBOX">>, <<"INBOX", ".", "Work">> >> => p_out = "."
       /\ p_in = << <<"INBOX">>, <<"Drafts">> >> => p_out = "/"

\* the detection has run on [INBOX, INBOX.Work, INBOX/Work] and answered '.'
C17_Witness ==
  /\ p_fn = "detectDelimiter" /\ p_done
  /\ p_in = << <<"INBOX">>, <<"INBOX", ".", "Work">>, <<"INBOX", "/", "Work">> >>
  /\ p_out = "."

\* C18: with "present" read as the code reads it (a non-empty string; for cc
\* and bcc also any array): text and html both present give the content
\* types multipart/alternative, text/plain, text/html in that order, with the
\* text in the plain part and the html in the html part; html alone gives one
\* text/html part; text alone or neither gives one text/plain part, with an
\* empty body line when neither is present; and the message has one Cc line
\* when cc is present and none otherwise, and the same for Bcc
C18_BodyByPresence ==
  (p_fn = "buildRFC822Message" /\ p_done) =>
    LET o == p_in.mailOptions
        present(x) == x.t = "array" \/ (x.t = "string" /\ x.v # << >>)
        at == { i \in DOMAIN p_out :
                  p_out[i] # << >> /\ p_out[i][1] = "Content-Type: " }
        RECURSIVE ordered(_)
        ordered(S) == IF S = {} THEN << >>
                      ELSE << Min(S) >> \o ordered(S \ {Min(S)})
        types == [k \in DOMAIN ordered(at) |-> p_out[ordered(at)[k]][2]]
        body(k) == p_out[ordered(at)[k] + 3]
        lines(name) == { i \in DOMAIN p_out :
                           p_out[i] # << >> /\ p_out[i][1] = name }
    IN /\ (present(o.text) /\ present(o.html)) =>
            /\ types = << "multipart/alternative", "text/plain", "text/html" >>
            /\ body(2) = o.text.v
            /\ body(3) = o.html.v
       /\ (~present(o.text) /\ present(o.html)) =>
            /\ types = << "text/html" >>
            /\ body(1) = o.html.v
       /\ (present(o.text) /\ ~present(o.html)) =>
            /\ types = << "text/plain" >>
            /\ body(1) = o.text.v
       /\ (~present(o.text) /\ ~present(o.html)) =>
            /\ types = << "text/plain" >>
            /\ body(1) = << >>
       /\ Cardinality(lines("Cc: ")) = IF present(o.cc) THEN 1 ELSE 0
       /\ Cardinality(lines("Bcc: ")) = IF present(o.bcc) THEN 1 ELSE 0

\* a message built from text, html and a cc of two addresses and no bcc
C18_Witness ==
  /\ p_fn = "buildRFC822Message" /\ p_done
  /\ p_in.mailOptions.text = Str(<< "hello" >>)
  /\ p_in.mailOptions.html = Str(<< "<p>hello</p>" >>)
  /\ p_in.mailOptions.cc = Arr(<< Str(<< "c@x" >>), Str(<< "d@x" >>) >>)
  /\ p_in.mailOptions.bcc.t = "undefined"
  /\ << "Cc: ", "c@x", ", ", "d@x" >> \in { p_out[i] : i \in DOMAIN p_out }

\* C19: a run issues at most two probe appends and at most one creation of
\* step 5; after a probe append that failed with an error other than
\* TRYCREATE the next operation is the logout, no creation and no append
\* follows, and the run does not return a result
C19_OtherAppendFailureIsTerminal ==
  LET appends == { i \in DOMAIN d_log : d_log[i].op = "append" }
      retries == { i \in DOMAIN d_log : d_log[i].op = "retryCreate" }
  IN /\ Cardinality(appends) <= 2
     /\ Cardinality(retries) <= 1
     /\ \A i \in appends :
          d_log[i].res = "err" =>
            /\ \A j \in DOMAIN d_log :
                 j > i => d_log[j].op \notin {"append", "create", "retryCreate"}
            /\ i < Len(d_log) => d_log[i + 1].op = "logout"
            /\ d_result # "returned"
            /\ d_pc = "done" => d_result = "threw"

\* a run whose first probe append failed with an error other than TRYCREATE
\* and which has ended
C19_Witness ==
  /\ d_pc = "done"
  /\ d_result = "threw"
  /\ \E i \in DOMAIN d_log :
       /\ d_log[i] = Logged("append", sentPath, "err")
       /\ \A j \in 1..(i - 1) : d_log[j].op \notin {"append", "retryCreate"}

\* C20: after a failure of step 1, the lock of INBOX or its release, the run
\* goes on: it is about to issue the special-use query or has issued it
C20_Step1FailureNotFatal ==
  \A i \in DOMAIN d_log :
    ( /\ d_log[i].op \in {"lock", "release"}
      /\ d_log[i].arg = << "INBOX" >>
      /\ d_log[i].res = "err" ) =>
        \/ d_pc = "listSpecial"
        \/ \E j \in DOMAIN d_log : j > i /\ d_log[j].op = "listSpecial"

\* true when the first probe append succeeded and an operation of its cleanup
\* (lock, search, flagsAdd, expunge, release on sentPath) then threw
CleanupFailed ==
  \E i \in DOMAIN d_log : \E j \in DOMAIN d_log :
    /\ d_log[i] = Logged("append", sentPath, "ok")
    /\ j > i
    /\ d_log[j].op \in {"lock", "search", "flagsAdd", "expunge", "release"}
    /\ d_log[j].arg = sentPath
    /\ d_log[j].res = "err"

\* C21: a finished run whose probe append succeeded and whose probe cleanup
\* failed has returned the ResolutionResult
C21_CleanupFailureNotFatal ==
  (d_pc = "done" /\ CleanupFailed) => d_result = "returned"

\* C22: in every run, release has been invoked on a mailbox no more often
\* than its lock was acquired; whenever logout is invoked, and when the run
\* has finished, release has been invoked exactly once for each lock
\* acquired, that of INBOX and that of the resolved folder
C22_LocksReleasedOnce ==
  LET acquired(p, n) == Cardinality({ i \in 1..n :
                          d_log[i] = Logged("lock", p, "ok") })
      released(p, n) == Cardinality({ i \in 1..n :
                          d_log[i].op = "release" /\ d_log[i].arg = p })
  IN \A p \in { << "INBOX" >>, sentPath } :
       /\ released(p, Len(d_log)) <= acquired(p, Len(d_log))
       /\ d_pc = "done" => released(p, Len(d_log)) = acquired(p, Len(d_log))
       /\ \A k \in DOMAIN d_log :
            d_log[k].op = "logout" => released(p, k) = acquired(p, k)

\* the listings that hold the folders of list in another order
Reorderings(list) ==
  { [i \in DOMAIN list |-> list[f[i]]] : f \in Permutations(DOMAIN list) }

\* the positions of the candidates that some folder of list matches
CandidateHits(list) ==
  LET cands == Candidates(DetectDelimiter(list))
  IN { k \in DOMAIN cands :
         \E i \in DOMAIN list : ToLowerCase(list[i]) = ToLowerCase(cands[k]) }

\* C23 as stated: when listed folders match several candidates, the folder
\* selected matches the earliest of them and is the same under every order
\* of the listing
C23_FirstCandidateAnyOrder ==
  (p_fn = "matchByName" /\ p_done /\ Cardinality(CandidateHits(p_in)) >= 2) =>
    /\ ToLowerCase(p_out) =
         ToLowerCase(Candidates(DetectDelimiter(p_in))[Min(CandidateHits(p_in))])
    /\ \A other \in Reorderings(p_in) :
         MatchByName(other, DetectDelimiter(other)) = p_out

\* C23 amended: nothing is selected when no folder matches a candidate;
\* otherwise the folder selected is the last listed one whose lowercase path
\* is the lowercase form of the earliest candidate matched; and the selection
\* is the same under another order of the listing that detects the same
\* delimiter, when no two folders have the same lowercase path
C23_FirstCandidateLastListed ==
  (p_fn = "matchByName" /\ p_done) =>
    LET delim == DetectDelimiter(p_in)
        hits == CandidateHits(p_in)
        distinct == \A i, j \in DOMAIN p_in :
                      i # j => ToLowerCase(p_in[i]) # ToLowerCase(p_in[j])
    IN /\ hits = {} <=> p_out = Null
       /\ hits # {} =>
            LET first == ToLowerCase(Candidates(delim)[Min(hits)])
            IN \E i \in DOMAIN p_in :
                 /\ p_in[i] = p_out
                 /\ ToLowerCase(p_in[i]) = first
                 /\ \A j \in DOMAIN p_in : j > i => ToLowerCase(p_in[j]) # first
       /\ distinct =>
            \A other \in Reorderings(p_in) :
              DetectDelimiter(other) = delim => MatchByName(other, delim) = p_out

\* [Enviados, Drafts, Sent Items]: two candidates matched, and the folder of
\* the earlier candidate selected though it is listed last
C23_Witness ==
  /\ p_fn = "matchByName" /\ p_done
  /\ p_in = << <<"Enviados">>, <<"Drafts">>, <<"Sent Items">> >>
  /\ p_out = <<"Sent Items">>

\* C24: the created field of a returned result is true exactly when a
\* mailbox creation of the run succeeded, in step 4 or in the TRYCREATE
\* recovery of step 5
C24_CreatedIffCreationSucceeded ==
  d_result = "returned" =>
    (created <=> \E i \in DOMAIN d_log :
                   /\ d_log[i].op \in {"create", "retryCreate"}
                   /\ d_log[i].res = "ok")

====
